---- MODULE Spec2Model ----
(***************************************************************************)
(* Cut-boundary resolution of ExactCut-Video-Tools                         *)
(* (src/vdscript_range_adjuster.py): the frame-type index built from the   *)
(* frame log, the three boundary searches and adjust_range.                *)
(*                                                                         *)
(* The index is built one log record at a time; afterwards the searches    *)
(* and adjust_range are applied to it.  Every application records its      *)
(* arguments in `args` and what it returned in `result`, together with the *)
(* source line of the return statement that produced the value.            *)
(***************************************************************************)
EXTENDS Integers, Sequences, FiniteSets, TLC

\* Bounds of the model: frame numbers of log records are 0..MaxFrame, cut
\* ranges have 1..MaxLen frames, i_frame_offset is 1..MaxOffset.
MaxFrame == 3
MaxLen == 3
MaxOffset == 2
\* merge_ranges is given at most MaxRanges ranges of 1..MaxMergeLen frames
\* each, and a min_gap of 0..MaxGap frames.
MaxRanges == 3
MaxMergeLen == 2
MaxGap == 1

\* Python's None: the value of dict.get for a missing key is NoneType, the
\* initial last_p_frame is None.  Frame numbers are never negative.
None == -1
NoneType == "None"

\* picture types the log's "type:(\w)" field carries
PictureTypes == {"I", "P", "B"}

\* frame numbers a log record may carry, and frame numbers a caller may ask
\* about (one more than the log can hold, so that a range may run past it)
LogFrames == 0..MaxFrame
ArgFrames == 0..(MaxFrame + 1)

VARIABLES
    frame_types,    \* the index: frame number -> picture type (a dict)
    op,             \* the operation applied last
    args,           \* its arguments
    result,         \* what it returned
    frame_to_pts,   \* the timestamp index: frame number -> pts_time (a dict)
    merged,         \* merge_ranges: the list `merged` being built
    pending         \* merge_ranges: the part of ranges[1:] not yet iterated

vars == <<frame_types, op, args, result, frame_to_pts, merged, pending>>

\* the state of the timecode translator and of merge_ranges' loop, which the
\* boundary searches never touch
others == <<frame_to_pts, merged, pending>>

----------------------------------------------------------------------------
(* dict helpers *)

\* frame_types.get(frame_num)
Get(ft, frame_num) ==
    IF frame_num \in DOMAIN ft THEN ft[frame_num] ELSE NoneType

\* max(frame_types.keys()), for a non-empty dict
max_frame(ft) ==
    CHOOSE m \in DOMAIN ft : \A k \in DOMAIN ft : k <= m

\* a returned value, with the line of the return statement and the value the
\* loop variable had there
Ret(val, line, at) ==
    [val |-> val, len |-> None, line |-> line, at |-> at, exc |-> NoneType]

\* an exception raised at `line`
Raise(exc, line) ==
    [val |-> None, len |-> None, line |-> line, at |-> None, exc |-> exc]

----------------------------------------------------------------------------
(* find_nth_previous_i_frame, lines 144-152 *)

RECURSIVE nth_previous_scan_excl(_, _, _, _)
nth_previous_scan_excl(frame_num, ft, n, i_frames_found) ==
    \* plausible slip: steps down before it looks, so `start` is never counted
    IF frame_num - 1 < 0
    THEN Ret(0, 152, frame_num - 1)
    ELSE IF Get(ft, frame_num - 1) = "I"
         THEN IF i_frames_found + 1 = n
              THEN Ret(frame_num - 1, 150, frame_num - 1)
              ELSE nth_previous_scan_excl(frame_num - 1, ft, n, i_frames_found + 1)
         ELSE nth_previous_scan_excl(frame_num - 1, ft, n, i_frames_found)

RECURSIVE nth_previous_scan(_, _, _, _)
nth_previous_scan(frame_num, ft, n, i_frames_found) ==
    IF frame_num < 0
    THEN Ret(0, 152, frame_num)
    ELSE IF Get(ft, frame_num) = "I"
         THEN IF i_frames_found + 1 = n
              THEN Ret(frame_num, 150, frame_num)
              ELSE nth_previous_scan(frame_num - 1, ft, n, i_frames_found + 1)
         ELSE nth_previous_scan(frame_num - 1, ft, n, i_frames_found)

find_nth_previous_i_frame(frame_num, ft, n) ==
    nth_previous_scan(frame_num, ft, n, 0)

----------------------------------------------------------------------------
(* find_last_p_frame_before_next_i, lines 154-163 *)

RECURSIVE last_p_scan_ret_i(_, _, _, _)
last_p_scan_ret_i(frame_num, ft, max, last_p_frame) ==
    \* plausible slip: returns the I-frame it stopped at
    IF frame_num > max
    THEN Ret(IF last_p_frame # None THEN last_p_frame ELSE max, 163, frame_num)
    ELSE IF Get(ft, frame_num) = "I" /\ last_p_frame # None
         THEN Ret(frame_num, 159, frame_num)
         ELSE last_p_scan_ret_i(frame_num + 1, ft, max,
                  IF Get(ft, frame_num) = "P" THEN frame_num ELSE last_p_frame)

RECURSIVE last_p_scan_max(_, _, _, _)
last_p_scan_max(frame_num, ft, max, last_p_frame) ==
    \* plausible slip: the fall-through always returns max_frame
    IF frame_num > max
    THEN Ret(max, 163, frame_num)
    ELSE IF Get(ft, frame_num) = "I" /\ last_p_frame # None
         THEN Ret(last_p_frame, 159, frame_num)
         ELSE last_p_scan_max(frame_num + 1, ft, max,
                  IF Get(ft, frame_num) = "P" THEN frame_num ELSE last_p_frame)

RECURSIVE last_p_scan_first_i(_, _, _, _)
last_p_scan_first_i(frame_num, ft, max, last_p_frame) ==
    \* plausible slip: the test `last_p_frame is not None` is missing
    IF frame_num > max
    THEN Ret(IF last_p_frame # None THEN last_p_frame ELSE max, 163, frame_num)
    ELSE IF Get(ft, frame_num) = "I"
         THEN Ret(last_p_frame, 159, frame_num)
         ELSE last_p_scan_first_i(frame_num + 1, ft, max,
                  IF Get(ft, frame_num) = "P" THEN frame_num ELSE last_p_frame)

RECURSIVE last_p_scan(_, _, _, _)
last_p_scan(frame_num, ft, max, last_p_frame) ==
    IF frame_num > max
    THEN Ret(IF last_p_frame # None THEN last_p_frame ELSE max, 163, frame_num)
    ELSE IF Get(ft, frame_num) = "I" /\ last_p_frame # None
         THEN Ret(last_p_frame, 159, frame_num)
         ELSE last_p_scan(frame_num + 1, ft, max,
                  IF Get(ft, frame_num) = "P" THEN frame_num ELSE last_p_frame)

find_last_p_frame_excl(frame_num, ft) ==
    \* plausible slip: the scan starts one frame after frame_num
    IF DOMAIN ft = {}
    THEN Raise("ValueError", 155)
    ELSE last_p_scan(frame_num + 1, ft, max_frame(ft), None)

find_last_p_frame_before_next_i(frame_num, ft) ==
    IF DOMAIN ft = {}
    THEN Raise("ValueError", 155)
    ELSE last_p_scan(frame_num, ft, max_frame(ft), None)

----------------------------------------------------------------------------
(* find_next_p_or_i_frame, lines 177-186 *)

RECURSIVE next_p_or_i_scan_max(_, _, _, _)
next_p_or_i_scan_max(next_frame, ft, max, frame_num) ==
    \* plausible slip: the fall-through returns max_frame, as line 163 does
    IF next_frame > max
    THEN Ret(max, 186, next_frame)
    ELSE IF Get(ft, next_frame) \in {"I", "P"}
         THEN Ret(next_frame, 184, next_frame)
         ELSE next_p_or_i_scan_max(next_frame + 1, ft, max, frame_num)

RECURSIVE next_p_or_i_scan(_, _, _, _)
next_p_or_i_scan(next_frame, ft, max, frame_num) ==
    IF next_frame > max
    THEN Ret(frame_num, 186, next_frame)
    ELSE IF Get(ft, next_frame) \in {"I", "P"}
         THEN Ret(next_frame, 184, next_frame)
         ELSE next_p_or_i_scan(next_frame + 1, ft, max, frame_num)

find_next_p_or_i_frame(frame_num, ft) ==
    IF DOMAIN ft = {}
    THEN Raise("ValueError", 178)
    ELSE IF Get(ft, frame_num) \in {"I", "P"}
         THEN Ret(frame_num, 180, frame_num)
         ELSE next_p_or_i_scan(frame_num + 1, ft, max_frame(ft), frame_num)

----------------------------------------------------------------------------
(* adjust_range, lines 165-175 *)

adjust_range_no_plus_one(start, length, ft, i_frame_offset, short_cut_mode) ==
    \* plausible slip: new_length = new_end - new_start
    LET new_start == find_nth_previous_i_frame(start, ft, i_frame_offset).val
        end       == start + length - 1
        found     == IF short_cut_mode
                     THEN find_next_p_or_i_frame(end, ft)
                     ELSE find_last_p_frame_before_next_i(end, ft)
    IN  IF found.exc # NoneType
        THEN Raise(found.exc, IF short_cut_mode THEN 170 ELSE 172)
        ELSE [val |-> new_start, len |-> found.val - new_start,
              line |-> 175, at |-> found.val, exc |-> NoneType]

adjust_range_end_from_new_start(start, length, ft, i_frame_offset, short_cut_mode) ==
    \* plausible slip: end = new_start + length - 1
    LET new_start == find_nth_previous_i_frame(start, ft, i_frame_offset).val
        end       == new_start + length - 1
        found     == IF short_cut_mode
                     THEN find_next_p_or_i_frame(end, ft)
                     ELSE find_last_p_frame_before_next_i(end, ft)
    IN  IF found.exc # NoneType
        THEN Raise(found.exc, IF short_cut_mode THEN 170 ELSE 172)
        ELSE [val |-> new_start, len |-> found.val - new_start + 1,
              line |-> 175, at |-> found.val, exc |-> NoneType]

adjust_range(start, length, ft, i_frame_offset, short_cut_mode) ==
    LET new_start == find_nth_previous_i_frame(start, ft, i_frame_offset).val
        end       == start + length - 1
        found     == IF short_cut_mode
                     THEN find_next_p_or_i_frame(end, ft)
                     ELSE find_last_p_frame_before_next_i(end, ft)
    IN  IF found.exc # NoneType
        THEN Raise(found.exc, IF short_cut_mode THEN 170 ELSE 172)
        ELSE [val |-> new_start, len |-> found.val - new_start + 1,
              line |-> 175, at |-> found.val, exc |-> NoneType]

----------------------------------------------------------------------------
(* merge_ranges, lines 188-200; a range is the tuple <<start, length>> *)

\* max(a, b)
max2(a, b) == IF a >= b THEN a ELSE b

\* ranges[-1] of a non-empty list
Last(list) == list[Len(list)]

merge_begin_skip(ranges) ==
    \* plausible slip: the loop runs over ranges[2:]
    [merged |-> <<ranges[1]>>, pending |-> SubSeq(ranges, 3, Len(ranges))]

\* merged = [ranges[0]], and the loop will run over ranges[1:]
merge_begin(ranges) ==
    [merged |-> <<ranges[1]>>, pending |-> Tail(ranges)]

merge_step_strict(merged_, current, min_gap) ==
    \* plausible slip: `<` for `<=`
    LET previous == Last(merged_)
    IN  IF current[1] - (previous[1] + previous[2]) < min_gap
        THEN [merged_ EXCEPT ![Len(merged_)] =
                 <<previous[1],
                   max2(previous[1] + previous[2], current[1] + current[2])
                       - previous[1]>>]
        ELSE Append(merged_, current)

merge_step_no_max(merged_, current, min_gap) ==
    \* plausible slip: the new end is the current range's end, without max()
    LET previous == Last(merged_)
    IN  IF current[1] - (previous[1] + previous[2]) <= min_gap
        THEN [merged_ EXCEPT ![Len(merged_)] =
                 <<previous[1], current[1] + current[2] - previous[1]>>]
        ELSE Append(merged_, current)

\* one iteration of the loop, lines 194-198
merge_step(merged_, current, min_gap) ==
    LET previous == Last(merged_)
    IN  IF current[1] - (previous[1] + previous[2]) <= min_gap
        THEN [merged_ EXCEPT ![Len(merged_)] =
                 <<previous[1],
                   max2(previous[1] + previous[2], current[1] + current[2])
                       - previous[1]>>]
        ELSE Append(merged_, current)

RECURSIVE merge_loop(_, _, _)
merge_loop(merged_, pending_, min_gap) ==
    IF pending_ = <<>>
    THEN merged_
    ELSE merge_loop(merge_step(merged_, Head(pending_), min_gap),
                    Tail(pending_), min_gap)

merge_ranges(ranges, min_gap) ==
    IF ranges = <<>>
    THEN <<>>
    ELSE merge_loop(merge_begin(ranges).merged, merge_begin(ranges).pending,
                    min_gap)

----------------------------------------------------------------------------
(* the state machine *)

NoArgs == [frame_num |-> 0, length |-> 0, n |-> 0, short_cut_mode |-> FALSE]

\* read_frame_log before its first line: frame_types = {}
Init ==
    /\ frame_types = <<>>
    /\ op = "read_frame_log"
    /\ args = NoArgs
    /\ result = Ret(None, 134, None)
    /\ frame_to_pts = <<>>
    /\ merged = <<>>
    /\ pending = <<>>

\* one matching log line: frame_types[frame_num] = frame_type
read_frame_log_line ==
    /\ op = "read_frame_log"
    /\ \E frame_num \in LogFrames, frame_type \in PictureTypes :
         /\ frame_types' = [k \in DOMAIN frame_types \cup {frame_num} |->
                              IF k = frame_num THEN frame_type ELSE frame_types[k]]
         /\ args' = [NoArgs EXCEPT !.frame_num = frame_num]
         /\ result' = Ret(None, 141, frame_num)
    /\ UNCHANGED <<op, others>>

\* end of the log: read_frame_log returns the index, which nothing changes
\* from here on
read_frame_log_return ==
    /\ op = "read_frame_log"
    /\ op' = "ready"
    /\ args' = NoArgs
    /\ result' = Ret(None, 142, None)
    /\ UNCHANGED <<frame_types, others>>

Call_find_nth_previous_i_frame ==
    /\ op = "ready"
    /\ \E frame_num \in ArgFrames, n \in 1..MaxOffset :
         /\ op' = "find_nth_previous_i_frame"
         /\ args' = [NoArgs EXCEPT !.frame_num = frame_num, !.n = n]
         /\ result' = find_nth_previous_i_frame(frame_num, frame_types, n)
    /\ UNCHANGED <<frame_types, others>>

Call_find_last_p_frame_before_next_i ==
    /\ op = "ready"
    /\ \E frame_num \in ArgFrames :
         /\ op' = "find_last_p_frame_before_next_i"
         /\ args' = [NoArgs EXCEPT !.frame_num = frame_num]
         /\ result' = find_last_p_frame_before_next_i(frame_num, frame_types)
    /\ UNCHANGED <<frame_types, others>>

Call_find_next_p_or_i_frame ==
    /\ op = "ready"
    /\ \E frame_num \in ArgFrames :
         /\ op' = "find_next_p_or_i_frame"
         /\ args' = [NoArgs EXCEPT !.frame_num = frame_num]
         /\ result' = find_next_p_or_i_frame(frame_num, frame_types)
    /\ UNCHANGED <<frame_types, others>>

Call_adjust_range ==
    /\ op = "ready"
    /\ \E start \in ArgFrames, length \in 1..MaxLen,
          i_frame_offset \in 1..MaxOffset, short_cut_mode \in BOOLEAN :
         /\ op' = "adjust_range"
         /\ args' = [frame_num |-> start, length |-> length,
                     n |-> i_frame_offset, short_cut_mode |-> short_cut_mode]
         /\ result' = adjust_range(start, length, frame_types,
                                   i_frame_offset, short_cut_mode)
    /\ UNCHANGED <<frame_types, others>>

\* the caller takes the returned value and is ready for its next call
Return ==
    /\ op \notin {"read_frame_log", "ready"}
    /\ op' = "ready"
    /\ args' = NoArgs
    /\ result' = Ret(None, 142, None)
    /\ UNCHANGED <<frame_types, others>>

Next ==
    \/ read_frame_log_line
    \/ read_frame_log_return
    \/ Call_find_nth_previous_i_frame
    \/ Call_find_last_p_frame_before_next_i
    \/ Call_find_next_p_or_i_frame
    \/ Call_adjust_range
    \/ Return

Spec == Init /\ [][Next]_vars

----------------------------------------------------------------------------
(* vocabulary of the properties *)

NonEmptyIndex == DOMAIN frame_types # {}

IsI(k) == Get(frame_types, k) = "I"
IsP(k) == Get(frame_types, k) = "P"
IsB(k) == Get(frame_types, k) = "B"

SetMax(S) == CHOOSE m \in S : \A k \in S : k <= m
SetMin(S) == CHOOSE m \in S : \A k \in S : m <= k

\* the call recorded in the state
Applied(name) == op = name /\ result.exc = NoneType
ArgStart == args.frame_num
ArgEnd == args.frame_num + args.length - 1
NewStart == result.val
NewEnd == result.val + result.len - 1

\* frames of the index from k up to its maximum
UpFrom(k) == {j \in DOMAIN frame_types : j >= k}
IFramesUpTo(k) == {j \in DOMAIN frame_types : j <= k /\ frame_types[j] = "I"}

----------------------------------------------------------------------------
(* adjust_range *)

\* C1: for every non-empty index, every range (start >= 0, length >= 1, the
\* range not tied to the index's maximum frame), every i_frame_offset >= 1 and
\* both modes, the adjusted range contains the original one:
\* new_start <= start and new_start + new_length - 1 >= start + length - 1.
C1_AdjustedContainsOriginal ==
    Applied("adjust_range") =>
        /\ NewStart <= ArgStart
        /\ NewEnd >= ArgEnd

\* What holds instead: the start never moves forward, and the end moves
\* backward only in FullGop mode for a range that runs past the last logged
\* frame, where the scan loop is never entered and max_frame is returned.
C1_ContractsOnlyPastTheLog ==
    Applied("adjust_range") =>
        /\ NewStart <= ArgStart
        /\ NewEnd < ArgEnd =>
              /\ ~args.short_cut_mode
              /\ ArgEnd > max_frame(frame_types)
              /\ NewEnd = max_frame(frame_types)

\* C2 as stated: the start of every adjusted range is classified Intra and
\* its end is classified Predicted (FullGop) or Predicted-or-Intra (ShortCut).
C2_BoundariesAlwaysLegal ==
    Applied("adjust_range") =>
        /\ IsI(NewStart)
        /\ IF args.short_cut_mode
           THEN IsP(NewEnd) \/ IsI(NewEnd)
           ELSE IsP(NewEnd)

\* C2 as amended: the start is classified Intra, or it is frame 0 when fewer
\* than i_frame_offset Intra frames exist at or below the original start; the
\* end is classified Predicted (FullGop) or Predicted-or-Intra (ShortCut), or
\* it is the fallback of the search: the index's maximum frame in FullGop
\* mode when no Predicted frame lies from the original end up to the maximum,
\* the original end in ShortCut mode when no Predicted or Intra frame does.
C2_BoundariesLegalOrFallback ==
    Applied("adjust_range") =>
        /\ \/ IsI(NewStart)
           \/ NewStart = 0 /\ Cardinality(IFramesUpTo(ArgStart)) < args.n
        /\ IF args.short_cut_mode
           THEN \/ IsP(NewEnd) \/ IsI(NewEnd)
                \/ /\ NewEnd = ArgEnd
                   /\ \A k \in UpFrom(ArgEnd) : ~IsP(k) /\ ~IsI(k)
           ELSE \/ IsP(NewEnd)
                \/ /\ NewEnd = max_frame(frame_types)
                   /\ \A k \in UpFrom(ArgEnd) : ~IsP(k)

\* a FullGop adjustment that moved both boundaries onto legal frames
C2_Witness ==
    /\ Applied("adjust_range")
    /\ ~args.short_cut_mode
    /\ NewStart < ArgStart /\ IsI(NewStart)
    /\ NewEnd > ArgEnd /\ IsP(NewEnd)

\* C3: the length adjust_range returns is >= 1, for every non-empty index,
\* range, offset and mode.
C3_LengthAtLeastOne ==
    Applied("adjust_range") => result.len >= 1

\* a range past the last logged frame, cut down to a single frame
C3_Witness ==
    /\ Applied("adjust_range")
    /\ ArgEnd > max_frame(frame_types)
    /\ args.length > 1
    /\ result.len = 1

----------------------------------------------------------------------------
(* find_nth_previous_i_frame *)

\* C4: find_nth_previous_i_frame(f, index, 1) returns f whenever frame f is
\* classified Intra: with offset 1 a start already on an I-frame stays put.
C4_OffsetOneKeepsIntraStart ==
    (op = "find_nth_previous_i_frame" /\ args.n = 1 /\ IsI(args.frame_num)) =>
        /\ result.exc = NoneType
        /\ result.val = args.frame_num

\* an Intra start above frame 0, with an earlier Intra frame present as well
C4_Witness ==
    /\ op = "find_nth_previous_i_frame"
    /\ args.n = 1
    /\ IsI(args.frame_num)
    /\ IFramesUpTo(args.frame_num - 1) # {}
    /\ result.val = args.frame_num

\* C5 as stated: for every frame f classified Intra,
\* find_nth_previous_i_frame(f, index, 2) returns an Intra frame strictly
\* before f, never f itself.
C5_OffsetTwoStrictlyEarlierIntra ==
    (op = "find_nth_previous_i_frame" /\ args.n = 2 /\ IsI(args.frame_num)) =>
        /\ IsI(result.val)
        /\ result.val < args.frame_num

\* C5 as amended: for every frame f classified Intra, the call with n = 2
\* returns the nearest Intra frame strictly before f when the index holds
\* one, and frame 0 (the floor, whatever its type, f itself when f = 0) when
\* no Intra frame precedes f.
C5_OffsetTwoPreviousIntraOrFloor ==
    (op = "find_nth_previous_i_frame" /\ args.n = 2 /\ IsI(args.frame_num)) =>
        /\ result.exc = NoneType
        /\ IF IFramesUpTo(args.frame_num - 1) # {}
           THEN result.val = SetMax(IFramesUpTo(args.frame_num - 1))
           ELSE result.val = 0

\* an Intra start whose previous Intra frame is not frame 0
C5_Witness ==
    /\ op = "find_nth_previous_i_frame"
    /\ args.n = 2
    /\ IsI(args.frame_num)
    /\ result.val > 0
    /\ result.val < args.frame_num
    /\ IsI(result.val)

\* the n-th largest element of a set of frame numbers
NthLargest(S, n) ==
    CHOOSE x \in S : Cardinality({y \in S : y >= x}) = n

\* C6: for every index (empty included), start >= 0 and n >= 1,
\* find_nth_previous_i_frame(start, index, n) is the n-th largest frame
\* number <= start classified Intra (start counted if Intra, frame numbers
\* absent from the index skipped), and 0 when fewer than n such frames
\* exist; it never raises.
C6_NthLargestIntraOrZero ==
    op = "find_nth_previous_i_frame" =>
        /\ result.exc = NoneType
        /\ IF Cardinality(IFramesUpTo(args.frame_num)) >= args.n
           THEN result.val = NthLargest(IFramesUpTo(args.frame_num), args.n)
           ELSE result.val = 0

\* the second Intra frame going down, reached across a frame number the
\* index does not hold and one that is not Intra
C6_Witness ==
    /\ op = "find_nth_previous_i_frame"
    /\ args.n = 2
    /\ result.line = 150
    /\ result.val > 0
    /\ \E k \in (result.val + 1)..args.frame_num : k \notin DOMAIN frame_types
    /\ \E k \in (result.val + 1)..args.frame_num : IsP(k) \/ IsB(k)

----------------------------------------------------------------------------
(* find_last_p_frame_before_next_i *)

PFramesFrom(k) == {j \in UpFrom(k) : frame_types[j] = "P"}
IFramesFrom(k) == {j \in UpFrom(k) : frame_types[j] = "I"}

\* C7: for every non-empty index and every starting frame, the result of
\* find_last_p_frame_before_next_i is a frame classified Predicted, or it is
\* the index's maximum frame number returned as the fallback (no Predicted
\* frame from the starting frame up); an Intra or Bidirectional frame is
\* never returned in any other way.
C7_PredictedOrMaxFallback ==
    Applied("find_last_p_frame_before_next_i") =>
        \/ IsP(result.val)
        \/ /\ result.val = max_frame(frame_types)
           /\ result.line = 163
           /\ PFramesFrom(args.frame_num) = {}

\* the scan stopped at an Intra frame and returned a Predicted frame above
\* its starting frame
C7_Witness ==
    /\ Applied("find_last_p_frame_before_next_i")
    /\ result.line = 159
    /\ IsP(result.val)
    /\ result.val > args.frame_num

\* C8 as stated: if no Intra frame is met from the starting frame up to the
\* maximum known frame, the maximum known frame number is returned.
C8_NoIntraReturnsMax ==
    (Applied("find_last_p_frame_before_next_i") /\ IFramesFrom(args.frame_num) = {}) =>
        result.val = max_frame(frame_types)

\* C8 as amended: if no Intra frame is met from the starting frame up to the
\* maximum known frame, the last Predicted frame of that stretch is returned
\* when there is one, and the maximum known frame number otherwise.
C8_NoIntraReturnsLastPOrMax ==
    (Applied("find_last_p_frame_before_next_i") /\ IFramesFrom(args.frame_num) = {}) =>
        IF PFramesFrom(args.frame_num) # {}
        THEN result.val = SetMax(PFramesFrom(args.frame_num))
        ELSE result.val = max_frame(frame_types)

\* no Intra frame ahead, and the last Predicted frame is not the last frame
C8_Witness ==
    /\ Applied("find_last_p_frame_before_next_i")
    /\ IFramesFrom(args.frame_num) = {}
    /\ PFramesFrom(args.frame_num) # {}
    /\ result.val = SetMax(PFramesFrom(args.frame_num))
    /\ result.val < max_frame(frame_types)

\* the Intra frames after the first Predicted frame at or above k
IFramesAfterFirstP(k) ==
    IF PFramesFrom(k) = {} THEN {} ELSE IFramesFrom(SetMin(PFramesFrom(k)))

\* C9: the scan runs upward from and including `from`; it returns at an
\* Intra frame j exactly when an Intra frame follows the first Predicted
\* frame at or above `from`, j is the first such Intra frame, and the result
\* r is Predicted with from <= r < j and no Predicted frame in (r, j).  Intra
\* frames met before any Predicted frame (`from` itself included) do not stop
\* the scan.
C9_StopsAtFirstIntraAfterAP ==
    Applied("find_last_p_frame_before_next_i") =>
        /\ result.line = 159 <=> IFramesAfterFirstP(args.frame_num) # {}
        /\ result.line = 159 =>
              /\ result.at = SetMin(IFramesAfterFirstP(args.frame_num))
              /\ IsP(result.val)
              /\ args.frame_num <= result.val
              /\ result.val < result.at
              /\ \A k \in (result.val + 1)..(result.at - 1) : ~IsP(k)
              /\ \A k \in args.frame_num..(result.at - 1) :
                    IsI(k) => PFramesFrom(args.frame_num) \cap args.frame_num..k = {}

\* the scan starts on an Intra frame, passes it, and stops at a later one
C9_Witness ==
    /\ Applied("find_last_p_frame_before_next_i")
    /\ IsI(args.frame_num)
    /\ result.line = 159
    /\ result.at > result.val + 1

----------------------------------------------------------------------------
(* adjust_range, end boundary in FullGop mode *)

\* the Predicted or Intra frames strictly after k
PorIAfter(k) == {j \in UpFrom(k + 1) : frame_types[j] \in {"P", "I"}}

\* the end of the range is already the last Predicted frame before the next
\* Intra frame
EndIsLastPBeforeNextI ==
    /\ IsP(ArgEnd)
    /\ PorIAfter(ArgEnd) # {}
    /\ IsI(SetMin(PorIAfter(ArgEnd)))

\* C10: in FullGop mode, if the range's end frame is Predicted and the first
\* Predicted-or-Intra frame after it is Intra, adjust_range leaves the end
\* frame unchanged.
C10_FullGopKeepsLastPEnd ==
    (Applied("adjust_range") /\ ~args.short_cut_mode /\ EndIsLastPBeforeNextI) =>
        NewEnd = ArgEnd

\* such a range whose start was moved while its end stayed, with a further
\* Predicted frame after the next Intra frame
C10_Witness ==
    /\ Applied("adjust_range")
    /\ ~args.short_cut_mode
    /\ EndIsLastPBeforeNextI
    /\ NewEnd = ArgEnd
    /\ NewStart < ArgStart
    /\ PFramesFrom(ArgEnd + 1) # {}

----------------------------------------------------------------------------
(* find_next_p_or_i_frame *)

\* C11: for every non-empty index and frame `from`, find_next_p_or_i_frame
\* returns `from` unchanged when `from` is Predicted or Intra; otherwise the
\* smallest frame number greater than `from`, and at most the maximum known
\* frame, that is Predicted or Intra; and `from` itself if there is none.
C11_NextPOrIOrSelf ==
    Applied("find_next_p_or_i_frame") =>
        IF IsP(args.frame_num) \/ IsI(args.frame_num)
        THEN result.val = args.frame_num
        ELSE IF PorIAfter(args.frame_num) # {}
             THEN result.val = SetMin(PorIAfter(args.frame_num))
             ELSE result.val = args.frame_num

\* a Bidirectional `from`, and a Predicted or Intra frame found beyond a
\* frame number the index does not hold
C11_Witness ==
    /\ Applied("find_next_p_or_i_frame")
    /\ IsB(args.frame_num)
    /\ result.line = 184
    /\ result.val > args.frame_num + 1
    /\ \E k \in (args.frame_num + 1)..(result.val - 1) : k \notin DOMAIN frame_types

----------------------------------------------------------------------------
(* adjust_range on the index of the worked examples *)

\* the frame log of the worked examples, as read_frame_log returns it
ScenarioIndex ==
    (0 :> "I" @@ 1 :> "P" @@ 2 :> "P" @@ 3 :> "I" @@ 4 :> "P" @@ 5 :> "P")

\* read_frame_log has returned ScenarioIndex
InitScenario ==
    /\ frame_types = ScenarioIndex
    /\ op = "ready"
    /\ args = NoArgs
    /\ result = Ret(None, 142, None)
    /\ frame_to_pts = <<>>
    /\ merged = <<>>
    /\ pending = <<>>

\* adjust_range for an AddRange line whose start is a logged frame and whose
\* length is at most the number of logged frames
Call_adjust_range_logged ==
    /\ op = "ready"
    /\ \E start \in DOMAIN frame_types,
          length \in 1..Cardinality(DOMAIN frame_types),
          i_frame_offset \in 1..MaxOffset, short_cut_mode \in BOOLEAN :
         /\ op' = "adjust_range"
         /\ args' = [frame_num |-> start, length |-> length,
                     n |-> i_frame_offset, short_cut_mode |-> short_cut_mode]
         /\ result' = adjust_range(start, length, frame_types,
                                   i_frame_offset, short_cut_mode)
    /\ UNCHANGED <<frame_types, others>>

NextScenario ==
    \/ Call_adjust_range_logged
    \/ Return

SpecScenario == InitScenario /\ [][NextScenario]_vars

\* C12: on the index {0:I, 1:P, 2:P, 3:I, 4:P, 5:P} with i_frame_offset = 1,
\* range (1, 4) in FullGop mode is adjusted to (0, 6) and range (2, 1) in
\* ShortCut mode to (0, 3).
C12_WorkedExamples ==
    (frame_types = ScenarioIndex /\ op = "adjust_range" /\ args.n = 1) =>
        /\ (args.frame_num = 1 /\ args.length = 4 /\ ~args.short_cut_mode) =>
              /\ result.exc = NoneType
              /\ result.val = 0
              /\ result.len = 6
        /\ (args.frame_num = 2 /\ args.length = 1 /\ args.short_cut_mode) =>
              /\ result.exc = NoneType
              /\ result.val = 0
              /\ result.len = 3

\* the FullGop example has been computed
C12_Witness ==
    /\ frame_types = ScenarioIndex
    /\ op = "adjust_range"
    /\ args = [frame_num |-> 1, length |-> 4, n |-> 1, short_cut_mode |-> FALSE]
    /\ result.val = 0
    /\ result.len = 6

\* the ShortCut example has been computed
C12_WitnessShortCut ==
    /\ frame_types = ScenarioIndex
    /\ op = "adjust_range"
    /\ args = [frame_num |-> 2, length |-> 1, n |-> 1, short_cut_mode |-> TRUE]
    /\ result.val = 0
    /\ result.len = 3

----------------------------------------------------------------------------
(* merge_ranges as process_vdscript calls it, one loop iteration at a time *)

\* the ranges handed to merge_ranges: sorted ascending by start, as
\* process_vdscript builds them from a script in ascending order
MergeRange == ArgFrames \X (1..MaxMergeLen)

SortedByStart(list) ==
    \A i \in 1..(Len(list) - 1) : list[i][1] <= list[i + 1][1]

SortedRangeLists ==
    {list \in UNION {[1..n -> MergeRange] : n \in 0..MaxRanges} :
        SortedByStart(list)}

\* the merge of the worked example
ScenarioMerge ==
    [ranges |-> <<(<<0, 10>>), (<<15, 5>>), (<<30, 5>>)>>, min_gap |-> 5]

\* process_vdscript at line 217, merge_option set, with its adjusted ranges
InitMerge ==
    /\ frame_types = <<>>
    /\ op = "process_vdscript"
    /\ args \in {[ranges |-> list, min_gap |-> g] :
                    list \in SortedRangeLists, g \in 0..MaxGap}
                \cup {ScenarioMerge}
    /\ result = [line |-> 217]
    /\ frame_to_pts = <<>>
    /\ merged = <<>>
    /\ pending = <<>>

\* `if not ranges: return []`
merge_ranges_empty ==
    /\ op = "process_vdscript"
    /\ args.ranges = <<>>
    /\ op' = "merge_ranges_done"
    /\ result' = [line |-> 190]
    /\ merged' = <<>>
    /\ UNCHANGED <<frame_types, args, frame_to_pts, pending>>

\* merged = [ranges[0]]
merge_ranges_begin ==
    /\ op = "process_vdscript"
    /\ args.ranges # <<>>
    /\ op' = "merge_ranges"
    /\ result' = [line |-> 192]
    /\ merged' = merge_begin(args.ranges).merged
    /\ pending' = merge_begin(args.ranges).pending
    /\ UNCHANGED <<frame_types, args, frame_to_pts>>

\* one iteration: `current` is absorbed into merged[-1] or appended
merge_ranges_iteration ==
    /\ op = "merge_ranges"
    /\ pending # <<>>
    /\ merged' = merge_step(merged, Head(pending), args.min_gap)
    /\ pending' = Tail(pending)
    /\ result' = [line |-> IF Len(merged') = Len(merged) THEN 196 ELSE 198,
                  before |-> merged, previous |-> Last(merged),
                  current |-> Head(pending)]
    /\ UNCHANGED <<frame_types, op, args, frame_to_pts>>

\* return merged
merge_ranges_return ==
    /\ op = "merge_ranges"
    /\ pending = <<>>
    /\ op' = "merge_ranges_done"
    /\ result' = [line |-> 200]
    /\ UNCHANGED <<frame_types, args, frame_to_pts, merged, pending>>

NextMerge ==
    \/ merge_ranges_empty
    \/ merge_ranges_begin
    \/ merge_ranges_iteration
    \/ merge_ranges_return

SpecMerge == InitMerge /\ [][NextMerge]_vars

\* an iteration of the loop has just run
Iterated == op = "merge_ranges" /\ result.line \in {196, 198}

\* start of `current` minus (open.start + open.length)
StepGap == result.current[1] - (result.previous[1] + result.previous[2])

\* C13: merge_ranges folds the list left to right keeping one open range
\* (the last of `merged`): a range whose start minus (open.start +
\* open.length) is <= min_gap, equality included, is absorbed into the open
\* range, otherwise the open range is emitted as it is and the current range
\* becomes the new open range; merge_ranges([(0,10),(15,5),(30,5)], 5) is
\* [(0,20),(30,5)].
C13_FoldAbsorbsUpToMinGap ==
    /\ Iterated =>
          /\ result.previous = Last(result.before)
          /\ IF StepGap <= args.min_gap
             THEN /\ Len(merged) = Len(result.before)
                  /\ \A i \in 1..(Len(merged) - 1) : merged[i] = result.before[i]
                  /\ Last(merged)[1] = result.previous[1]
             ELSE merged = Append(result.before, result.current)
    /\ (op = "merge_ranges_done" /\ args = ScenarioMerge) =>
          merged = <<(<<0, 20>>), (<<30, 5>>)>>

\* the worked example has been merged: its second range, at exactly min_gap
\* from the first, was absorbed and its third was kept apart
C13_Witness ==
    /\ op = "merge_ranges_done"
    /\ args = ScenarioMerge
    /\ merged = <<(<<0, 20>>), (<<30, 5>>)>>

\* C14: for every list sorted ascending by start and every min_gap >= 0,
\* merging the merged list again with the same min_gap returns it unchanged.
C14_MergeIdempotent ==
    (op = "merge_ranges_done" /\ SortedByStart(args.ranges)) =>
        merge_ranges(merged, args.min_gap) = merged

\* a merge that absorbed a range and still returned more than one range
C14_Witness ==
    /\ op = "merge_ranges_done"
    /\ Len(merged) > 1
    /\ Len(merged) < Len(args.ranges)
    /\ merge_ranges(merged, args.min_gap) = merged

\* C15: when an iteration absorbs a range, the open range keeps its start and
\* its end becomes the maximum of its own end and the absorbed range's end,
\* so it never decreases; a range contained in the open range leaves it
\* unchanged.
C15_AbsorbKeepsStartNeverShrinks ==
    (Iterated /\ result.line = 196) =>
        LET open == result.previous
            cur  == result.current
            new  == Last(merged)
        IN  /\ new[1] = open[1]
            /\ new[1] + new[2] >= open[1] + open[2]
            /\ new[1] + new[2] >= cur[1] + cur[2]
            /\ new[1] + new[2] \in {open[1] + open[2], cur[1] + cur[2]}
            /\ (cur[1] >= open[1] /\ cur[1] + cur[2] <= open[1] + open[2])
                  => new = open

\* a range lying strictly inside the open range has been absorbed
C15_Witness ==
    /\ Iterated
    /\ result.line = 196
    /\ result.current[1] > result.previous[1]
    /\ result.current[1] + result.current[2]
           < result.previous[1] + result.previous[2]
    /\ Last(merged) = result.previous

\* C16: in the output of merge_ranges, consecutive ranges are more than
\* min_gap frames apart: next.start - (prev.start + prev.length) > min_gap,
\* for every input sorted ascending by start and every min_gap >= 0.
C16_OutputGapsExceedMinGap ==
    (op = "merge_ranges_done" /\ SortedByStart(args.ranges)) =>
        \A i \in 1..(Len(merged) - 1) :
            merged[i + 1][1] - (merged[i][1] + merged[i][2]) > args.min_gap

\* an output of two ranges kept apart by min_gap + 1 frames, from an input
\* one of whose ranges was absorbed
C16_Witness ==
    /\ op = "merge_ranges_done"
    /\ Len(merged) = 2
    /\ Len(args.ranges) = 3
    /\ args.min_gap > 0
    /\ merged[2][1] - (merged[1][1] + merged[1][2]) = args.min_gap + 1

----------------------------------------------------------------------------
(* process_vdscript over a whole script, and the 1stGOP analyzer *)

ScriptMaxFrame == 2
ScriptMaxLen == 2
ScriptMaxRanges == 2

RECURSIVE adjusted_ranges_prepend(_, _, _, _)
adjusted_ranges_prepend(lines, ft, i_frame_offset, short_cut_mode) ==
    \* plausible slip: ranges.insert(0, ...) instead of ranges.append(...)
    IF lines = <<>>
    THEN <<>>
    ELSE LET r == adjust_range(Head(lines)[1], Head(lines)[2], ft,
                               i_frame_offset, short_cut_mode)
         IN  Append(adjusted_ranges_prepend(Tail(lines), ft, i_frame_offset,
                                            short_cut_mode),
                    <<r.val, r.len>>)

\* the loop over the AddRange lines, lines 209-215
RECURSIVE adjusted_ranges(_, _, _, _)
adjusted_ranges(lines, ft, i_frame_offset, short_cut_mode) ==
    IF lines = <<>>
    THEN <<>>
    ELSE LET r == adjust_range(Head(lines)[1], Head(lines)[2], ft,
                               i_frame_offset, short_cut_mode)
         IN  <<(<<r.val, r.len>>)>>
                 \o adjusted_ranges(Tail(lines), ft, i_frame_offset,
                                    short_cut_mode)

\* the ranges process_vdscript writes, lines 203-227
process_vdscript(lines, ft, i_frame_offset, merge_option, min_gap, short_cut_mode) ==
    LET ranges == adjusted_ranges(lines, ft, i_frame_offset, short_cut_mode)
    IN  IF merge_option THEN merge_ranges(ranges, min_gap) ELSE ranges

RECURSIVE next_i_scan(_, _, _)
next_i_scan(frame, end_frame, ft) ==
    IF frame > end_frame
    THEN None
    ELSE IF Get(ft, frame) = "I"
         THEN frame
         ELSE next_i_scan(frame + 1, end_frame, ft)

find_next_i_frame_incl(start_frame, end_frame, ft) ==
    \* plausible slip: range(start_frame, end_frame + 1)
    next_i_scan(start_frame, end_frame, ft)

\* 1stGOP_analyzer: range(start_frame + 1, end_frame + 1)
find_next_i_frame(start_frame, end_frame, ft) ==
    next_i_scan(start_frame + 1, end_frame, ft)

\* lines 115-120; `if next_i_frame:` is false for None and for 0
gop_size(start_frame, range_length, ft) ==
    LET end_frame    == start_frame + range_length - 1
        next_i_frame == find_next_i_frame(start_frame, end_frame, ft)
    IN  IF next_i_frame # None /\ next_i_frame # 0
        THEN next_i_frame - start_frame
        ELSE range_length

RECURSIVE calculate_gop_sizes(_, _)
calculate_gop_sizes(lines, ft) ==
    IF lines = <<>>
    THEN <<>>
    ELSE <<gop_size(Head(lines)[1], Head(lines)[2], ft)>>
             \o calculate_gop_sizes(Tail(lines), ft)

\* Python's min() over a non-empty list
RECURSIVE min(_)
min(sizes) ==
    IF Len(sizes) = 1
    THEN Head(sizes)
    ELSE IF Head(sizes) <= min(Tail(sizes)) THEN Head(sizes) ELSE min(Tail(sizes))

\* what write_gop_info_to_file writes: the sizes and their minimum, or
\* "No ranges available."
write_gop_info_to_file(gop_sizes) ==
    IF gop_sizes # <<>>
    THEN [sizes |-> gop_sizes, smallest |-> min(gop_sizes), line |-> 130]
    ELSE [sizes |-> <<>>, smallest |-> None, line |-> 133]

\* the non-empty indexes read_frame_log can return
ScriptIndexes ==
    UNION {[S -> PictureTypes] : S \in SUBSET (0..ScriptMaxFrame) \ {{}}}

\* the (start, length) pairs of the AddRange lines of a script: a start in
\* the log or one frame past it, a length of one frame or of ScriptMaxLen
ScriptRange == (0..(ScriptMaxFrame + 1)) \X {1, ScriptMaxLen}

ScriptLines == UNION {[1..n -> ScriptRange] : n \in 0..ScriptMaxRanges}

\* read_frame_log has returned a non-empty index
InitScript ==
    /\ frame_types \in ScriptIndexes
    /\ op = "ready"
    /\ args = NoArgs
    /\ result = Ret(None, 142, None)
    /\ frame_to_pts = <<>>
    /\ merged = <<>>
    /\ pending = <<>>

\* process_vdscript on a script whose ranges are in ascending start order;
\* min_gap is read only when merge_option is set
Call_process_vdscript ==
    /\ op = "ready"
    /\ \E lines \in ScriptLines, i_frame_offset \in 1..MaxOffset,
          merge_option \in BOOLEAN, short_cut_mode \in BOOLEAN :
         \E min_gap \in IF merge_option THEN 0..MaxGap ELSE {0} :
           /\ SortedByStart(lines)
           /\ op' = "process_vdscript"
           /\ args' = [lines |-> lines, n |-> i_frame_offset,
                       merge_option |-> merge_option, min_gap |-> min_gap,
                       short_cut_mode |-> short_cut_mode]
           /\ result' = [ranges |-> process_vdscript(lines, frame_types,
                                        i_frame_offset, merge_option, min_gap,
                                        short_cut_mode),
                         line |-> 227]
    /\ UNCHANGED <<frame_types, others>>

\* the analyzer's main: calculate_gop_sizes, then write_gop_info_to_file
Call_calculate_gop_sizes ==
    /\ op = "ready"
    /\ \E lines \in ScriptLines :
         /\ op' = "calculate_gop_sizes"
         /\ args' = [lines |-> lines]
         /\ result' = write_gop_info_to_file(
                          calculate_gop_sizes(lines, frame_types))
    /\ UNCHANGED <<frame_types, others>>

NextScript ==
    \/ Call_process_vdscript
    \/ Call_calculate_gop_sizes
    \/ Return

SpecScript == InitScript /\ [][NextScript]_vars

\* C17: when the input ranges are in ascending start order, the ranges
\* process_vdscript emits are in ascending start order: with merging disabled
\* they are the adjusted ranges, one per input range, in input order; with
\* merging enabled they are ascending too; for every non-empty index, offset
\* and mode.
C17_OutputAscending ==
    (op = "process_vdscript" /\ SortedByStart(args.lines)) =>
        /\ SortedByStart(result.ranges)
        /\ ~args.merge_option =>
              /\ Len(result.ranges) = Len(args.lines)
              /\ \A i \in 1..Len(args.lines) :
                    LET r == adjust_range(args.lines[i][1], args.lines[i][2],
                                          frame_types, args.n,
                                          args.short_cut_mode)
                    IN  result.ranges[i] = <<r.val, r.len>>
        /\ args.merge_option =>
              \A i \in 1..(Len(result.ranges) - 1) :
                  result.ranges[i][1] < result.ranges[i + 1][1]

\* two input ranges with different starts were adjusted to different starts
\* and emitted in that order, merging disabled
C17_Witness ==
    /\ op = "process_vdscript"
    /\ ~args.merge_option
    /\ Len(args.lines) = 2
    /\ args.lines[1][1] < args.lines[2][1]
    /\ Len(result.ranges) = 2
    /\ result.ranges[1][1] < result.ranges[2][1]

\* two input ranges were emitted as two ranges with merging enabled
C17_WitnessMerged ==
    /\ op = "process_vdscript"
    /\ args.merge_option
    /\ Len(args.lines) = 2
    /\ Len(result.ranges) = 2

\* the Intra frames strictly after start and at or before start + length - 1
IntraInside(range) ==
    {j \in DOMAIN frame_types :
        /\ range[1] < j
        /\ j <= range[1] + range[2] - 1
        /\ frame_types[j] = "I"}

----------------------------------------------------------------------------
(* the timecode translation: vdscript_to_timecode_cutlist_generator.py and
   vdscript_vfr_info.py.  Timestamps are integer ticks of 0.01 s. *)

PtsMaxFrame == 3
PtsMaxLen == 3
MaxPts == 3

\* `last_frame_dur = 0.04`, in ticks
last_frame_dur_fallback == 4

\* frame_to_pts.get(frame_num): None for a missing key
pts_get(ftp, frame_num) ==
    IF frame_num \in DOMAIN ftp THEN ftp[frame_num] ELSE None

\* sorted(frame_to_pts.keys())
RECURSIVE sorted(_)
sorted(keys) ==
    IF keys = {}
    THEN <<>>
    ELSE LET first == CHOOSE m \in keys : \A k \in keys : m <= k
         IN  <<first>> \o sorted(keys \ {first})

cutlist_segment_incl_end(adj_start_frame, length, ftp, sorted_frames) ==
    \* plausible slip: the boundary taken as the inclusive end of the range
    LET start_pts_time   == pts_get(ftp, adj_start_frame)
        end_frame_idx    == adj_start_frame + length - 1
        end_pts_time     == pts_get(ftp, end_frame_idx)
        last_known_frame == sorted_frames[Len(sorted_frames)]
        last_frame_dur   ==
            IF Len(sorted_frames) > 1
            THEN ftp[last_known_frame] - ftp[sorted_frames[Len(sorted_frames) - 1]]
            ELSE last_frame_dur_fallback
        missing_frames_count == end_frame_idx - last_known_frame
        estimated_end_pts ==
            ftp[last_known_frame] + (last_frame_dur * missing_frames_count)
    IN  IF start_pts_time = None
        THEN [start_time |-> None, duration |-> None, line |-> 129]
        ELSE IF end_pts_time # None
        THEN [start_time |-> start_pts_time,
              duration |-> end_pts_time - start_pts_time, line |-> 140]
        ELSE [start_time |-> start_pts_time,
              duration |-> estimated_end_pts - start_pts_time, line |-> 160]

\* one pass of the cutlist generator's loop over the ranges, lines 125-163:
\* the (start_time, duration) it appends, or the skipped segment
cutlist_segment(adj_start_frame, length, ftp, sorted_frames) ==
    LET start_pts_time   == pts_get(ftp, adj_start_frame)
        end_frame_idx    == adj_start_frame + length
        end_pts_time     == pts_get(ftp, end_frame_idx)
        last_known_frame == sorted_frames[Len(sorted_frames)]
        last_frame_dur   ==
            IF Len(sorted_frames) > 1
            THEN ftp[last_known_frame] - ftp[sorted_frames[Len(sorted_frames) - 1]]
            ELSE last_frame_dur_fallback
        missing_frames_count == end_frame_idx - last_known_frame
        estimated_end_pts ==
            ftp[last_known_frame] + (last_frame_dur * missing_frames_count)
    IN  IF start_pts_time = None
        THEN [start_time |-> None, duration |-> None, line |-> 129]
        ELSE IF end_pts_time # None
        THEN [start_time |-> start_pts_time,
              duration |-> end_pts_time - start_pts_time, line |-> 140]
        ELSE [start_time |-> start_pts_time,
              duration |-> estimated_end_pts - start_pts_time, line |-> 160]

get_duration_from_log_one_frame(start_frame, length, ftp, sorted_frames) ==
    \* plausible slip: one frame duration added, whatever the missing count
    LET start_time     == pts_get(ftp, start_frame)
        end_frame_idx  == start_frame + length
        end_time       == pts_get(ftp, end_frame_idx)
        last_known     == sorted_frames[Len(sorted_frames)]
        last_frame_dur ==
            IF Len(sorted_frames) > 1
            THEN ftp[last_known] - ftp[sorted_frames[Len(sorted_frames) - 1]]
            ELSE last_frame_dur_fallback
        estimated_end  == ftp[last_known] + last_frame_dur
    IN  IF start_time = None
        THEN [start_time |-> None, duration |-> None, line |-> 82]
        ELSE IF end_time # None
        THEN [start_time |-> start_time, duration |-> end_time - start_time,
              line |-> 89]
        ELSE [start_time |-> start_time, duration |-> estimated_end - start_time,
              line |-> 101]

\* vdscript_vfr_info.py, lines 75-103
get_duration_from_log(start_frame, length, ftp, sorted_frames) ==
    LET start_time     == pts_get(ftp, start_frame)
        end_frame_idx  == start_frame + length
        end_time       == pts_get(ftp, end_frame_idx)
        last_known     == sorted_frames[Len(sorted_frames)]
        last_frame_dur ==
            IF Len(sorted_frames) > 1
            THEN ftp[last_known] - ftp[sorted_frames[Len(sorted_frames) - 1]]
            ELSE last_frame_dur_fallback
        missing_frames == end_frame_idx - last_known
        estimated_end  == ftp[last_known] + (last_frame_dur * missing_frames)
    IN  IF start_time = None
        THEN [start_time |-> None, duration |-> None, line |-> 82]
        ELSE IF end_time # None
        THEN [start_time |-> start_time, duration |-> end_time - start_time,
              line |-> 89]
        ELSE [start_time |-> start_time, duration |-> estimated_end - start_time,
              line |-> 101]

NoRange == [start_frame |-> 0, length |-> 0]

\* parse_showinfo_log before its first line: frame_to_pts = {}
InitTimecode ==
    /\ frame_types = <<>>
    /\ op = "parse_showinfo_log"
    /\ args = NoRange
    /\ result = [start_time |-> None, duration |-> None, line |-> 23]
    /\ frame_to_pts = <<>>
    /\ merged = <<>>
    /\ pending = <<>>

\* one matching log line: frame_to_pts[frame_num] = pts_time
parse_showinfo_log_line ==
    /\ op = "parse_showinfo_log"
    /\ \E frame_num \in 0..PtsMaxFrame, pts_time \in 0..MaxPts :
         frame_to_pts' = [k \in DOMAIN frame_to_pts \cup {frame_num} |->
                            IF k = frame_num THEN pts_time ELSE frame_to_pts[k]]
    /\ UNCHANGED <<frame_types, op, args, result, merged, pending>>

\* end of the log: an empty index makes both callers skip the script,
\* otherwise the ranges of the script are translated
parse_showinfo_log_return ==
    /\ op = "parse_showinfo_log"
    /\ op' = IF frame_to_pts = <<>> THEN "skipped" ELSE "ready"
    /\ result' = [start_time |-> None, duration |-> None,
                  line |-> IF frame_to_pts = <<>> THEN 42 ELSE 47]
    /\ UNCHANGED <<frame_types, args, frame_to_pts, merged, pending>>

\* the cutlist generator translates one range of the script
Call_cutlist_segment ==
    /\ op = "ready"
    /\ \E adj_start_frame \in 0..(PtsMaxFrame + 1), length \in 1..PtsMaxLen :
         /\ op' = "cutlist_segment"
         /\ args' = [start_frame |-> adj_start_frame, length |-> length]
         /\ result' = cutlist_segment(adj_start_frame, length, frame_to_pts,
                                      sorted(DOMAIN frame_to_pts))
    /\ UNCHANGED <<frame_types, frame_to_pts, merged, pending>>

\* vdscript_vfr_info translates one range of the script
Call_get_duration_from_log ==
    /\ op = "ready"
    /\ \E start_frame \in 0..(PtsMaxFrame + 1), length \in 1..PtsMaxLen :
         /\ op' = "get_duration_from_log"
         /\ args' = [start_frame |-> start_frame, length |-> length]
         /\ result' = get_duration_from_log(start_frame, length, frame_to_pts,
                                            sorted(DOMAIN frame_to_pts))
    /\ UNCHANGED <<frame_types, frame_to_pts, merged, pending>>

\* the next range of the script
ReturnTimecode ==
    /\ op \in {"cutlist_segment", "get_duration_from_log"}
    /\ op' = "ready"
    /\ args' = NoRange
    /\ result' = [start_time |-> None, duration |-> None, line |-> 47]
    /\ UNCHANGED <<frame_types, frame_to_pts, merged, pending>>

NextTimecode ==
    \/ parse_showinfo_log_line
    \/ parse_showinfo_log_return
    \/ Call_cutlist_segment
    \/ Call_get_duration_from_log
    \/ ReturnTimecode

SpecTimecode == InitTimecode /\ [][NextTimecode]_vars

\* a range has been translated by one of the two implementations
Translated == op \in {"cutlist_segment", "get_duration_from_log"}
BoundaryFrame == args.start_frame + args.length
RangeFrames == args.start_frame..(BoundaryFrame - 1)
KnownFrames == DOMAIN frame_to_pts

\* C19 as stated: for a range (start, length) fully inside the logged frames
\* (every frame of the range is logged), the translated duration equals
\* presentation_time(start + length) - presentation_time(start) and
\* start_time equals presentation_time(start).
C19_RoundTripInsideLog ==
    (Translated /\ RangeFrames \subseteq KnownFrames) =>
        /\ BoundaryFrame \in KnownFrames
        /\ result.start_time = frame_to_pts[args.start_frame]
        /\ result.duration =
              frame_to_pts[BoundaryFrame] - frame_to_pts[args.start_frame]

\* C19, amended: for a range (start, length) whose start frame and boundary
\* frame start + length are both logged, the translated duration equals
\* presentation_time(start + length) - presentation_time(start), whatever the
\* timestamps (or absence) of the frames in between, and start_time equals
\* presentation_time(start).
C19_RoundTripBoundaryLogged ==
    (Translated /\ args.start_frame \in KnownFrames
                /\ BoundaryFrame \in KnownFrames) =>
        /\ result.start_time = frame_to_pts[args.start_frame]
        /\ result.duration =
              frame_to_pts[BoundaryFrame] - frame_to_pts[args.start_frame]

\* a range of three frames with uneven frame durations in between was
\* translated by the cutlist generator from its two end timestamps alone
C19_Witness ==
    /\ op = "cutlist_segment"
    /\ args.length = 3
    /\ RangeFrames \cup {BoundaryFrame} \subseteq KnownFrames
    /\ frame_to_pts[args.start_frame + 1] = frame_to_pts[args.start_frame]
    /\ frame_to_pts[args.start_frame + 2] > frame_to_pts[args.start_frame + 1] + 1
    /\ result.line = 140
    /\ result.duration = frame_to_pts[BoundaryFrame] - frame_to_pts[args.start_frame]
    /\ result.duration > 0

\* the inter-frame duration the extrapolation uses
LastFrame == SetMax(KnownFrames)
LastFrameDuration ==
    IF KnownFrames \ {LastFrame} # {}
    THEN frame_to_pts[LastFrame]
             - frame_to_pts[SetMax(KnownFrames \ {LastFrame})]
    ELSE last_frame_dur_fallback

\* C20: when presentation_time(start + length) is absent, the cutlist
\* generator and get_duration_from_log compute the same duration,
\* pts(last) + (pts(last) - pts(prev)) * (start + length - last) - pts(start),
\* last the maximum known frame and prev the next-to-last known frame, with
\* 0.04 s as the inter-frame duration when only one frame is known.
C20_ExtrapolatedDuration ==
    (Translated /\ args.start_frame \in KnownFrames
                /\ BoundaryFrame \notin KnownFrames) =>
        /\ result.start_time = frame_to_pts[args.start_frame]
        /\ result.duration =
              frame_to_pts[LastFrame]
                  + LastFrameDuration * (BoundaryFrame - LastFrame)
                  - frame_to_pts[args.start_frame]
        /\ LET generator == cutlist_segment(args.start_frame, args.length,
                                frame_to_pts, sorted(KnownFrames))
               vfr_info  == get_duration_from_log(args.start_frame, args.length,
                                frame_to_pts, sorted(KnownFrames))
           IN  /\ generator.line = 160
               /\ vfr_info.line = 101
               /\ generator.start_time = vfr_info.start_time
               /\ generator.duration = vfr_info.duration

\* get_duration_from_log extrapolated two frames past the last of several
\* logged frames, with a last frame duration of two ticks
C20_Witness ==
    /\ op = "get_duration_from_log"
    /\ Cardinality(KnownFrames) > 2
    /\ BoundaryFrame = LastFrame + 2
    /\ LastFrameDuration = 2
    /\ result.line = 101
    /\ result.duration =
          frame_to_pts[LastFrame] + 4 - frame_to_pts[args.start_frame]

\* the cutlist generator extrapolated from a log of a single frame, with the
\* fallback duration
C20_WitnessFallback ==
    /\ op = "cutlist_segment"
    /\ Cardinality(KnownFrames) = 1
    /\ result.line = 160
    /\ result.duration = last_frame_dur_fallback * args.length

\* the start frame of the translated range is logged
StartLogged == Translated /\ args.start_frame \in KnownFrames

\* timestamps never decrease as the frame number grows
PtsNonDecreasing ==
    \A j, k \in KnownFrames : j <= k => frame_to_pts[j] <= frame_to_pts[k]

\* C21: the extrapolation branch is taken only when the range runs past the
\* last logged frame: whenever presentation_time(start + length) is absent
\* for a translated range, start + length is greater than the maximum known
\* frame number (missing >= 1), gaps in frame numbers included.
C21_ExtrapolationOnlyPastLast ==
    (StartLogged /\ BoundaryFrame \notin KnownFrames) =>
        BoundaryFrame - LastFrame >= 1

\* C22: every translated range whose start frame is logged gets a duration
\* >= 0, for every non-empty index whose timestamps are non-decreasing in
\* frame number, gaps allowed.
C22_DurationNonNegative ==
    (StartLogged /\ PtsNonDecreasing) => result.duration >= 0

----------------------------------------------------------------------------
(* the translation of a whole script: the generator's loop over
   adjusted_ranges and vdscript_vfr_info's loop over selections *)

CutMaxPts == 1

RECURSIVE timecode_segments_break(_, _, _)
timecode_segments_break(ranges, ftp, sorted_frames) ==
    \* plausible slip: `break` instead of `continue` on a missing start
    IF ranges = <<>>
    THEN <<>>
    ELSE LET segment == cutlist_segment(Head(ranges)[1],
                            Head(ranges)[2], ftp, sorted_frames)
         IN  IF segment.start_time = None
             THEN <<>>
             ELSE <<segment>> \o timecode_segments_break(
                                     Tail(ranges), ftp, sorted_frames)

\* generator lines 123-163: a range whose start has no timestamp is skipped
\* with `continue`, every other range appends its segment
RECURSIVE timecode_segments(_, _, _)
timecode_segments(ranges, ftp, sorted_frames) ==
    IF ranges = <<>>
    THEN <<>>
    ELSE LET segment == cutlist_segment(Head(ranges)[1],
                            Head(ranges)[2], ftp, sorted_frames)
         IN  IF segment.start_time = None
             THEN timecode_segments(Tail(ranges), ftp, sorted_frames)
             ELSE <<segment>> \o timecode_segments(
                                     Tail(ranges), ftp, sorted_frames)

\* vdscript_vfr_info lines 165-188: one output line per selection, the
\* segment (line 183) or "Error finding timestamps" (line 188)
RECURSIVE output_lines(_, _, _)
output_lines(selections, ftp, sorted_frames) ==
    IF selections = <<>>
    THEN <<>>
    ELSE LET r == get_duration_from_log(Head(selections)[1],
                      Head(selections)[2], ftp, sorted_frames)
         IN  <<[start_time |-> r.start_time, duration |-> r.duration,
                line |-> IF r.start_time # None THEN 183 ELSE 188]>>
                 \o output_lines(Tail(selections), ftp, sorted_frames)

\* the non-empty timestamp indexes parse_showinfo_log can return
CutIndexes ==
    UNION {[S -> 0..CutMaxPts] : S \in SUBSET (0..ScriptMaxFrame) \ {{}}}

NoScript == [lines |-> <<>>]

\* parse_showinfo_log has returned a non-empty index
InitCutlist ==
    /\ frame_types = <<>>
    /\ op = "ready"
    /\ args = NoScript
    /\ result = [segments |-> <<>>, line |-> 95]
    /\ frame_to_pts \in CutIndexes
    /\ merged = <<>>
    /\ pending = <<>>

\* the cutlist generator translates the ranges of one script
Call_timecode_segments ==
    /\ op = "ready"
    /\ \E ranges \in ScriptLines :
         /\ op' = "timecode_segments"
         /\ args' = [lines |-> ranges]
         /\ result' = [segments |-> timecode_segments(ranges,
                                        frame_to_pts, sorted(DOMAIN frame_to_pts)),
                       line |-> 163]
    /\ UNCHANGED <<frame_types, frame_to_pts, merged, pending>>

\* vdscript_vfr_info translates the selections of one script
Call_output_lines ==
    /\ op = "ready"
    /\ \E selections \in ScriptLines :
         /\ op' = "output_lines"
         /\ args' = [lines |-> selections]
         /\ result' = [segments |-> output_lines(selections, frame_to_pts,
                                        sorted(DOMAIN frame_to_pts)),
                       line |-> 188]
    /\ UNCHANGED <<frame_types, frame_to_pts, merged, pending>>

\* the next script with the same log
ReturnCutlist ==
    /\ op \in {"timecode_segments", "output_lines"}
    /\ op' = "ready"
    /\ args' = NoScript
    /\ result' = [segments |-> <<>>, line |-> 95]
    /\ UNCHANGED <<frame_types, frame_to_pts, merged, pending>>

NextCutlist ==
    \/ Call_timecode_segments
    \/ Call_output_lines
    \/ ReturnCutlist

SpecCutlist == InitCutlist /\ [][NextCutlist]_vars

\* the positions of the script's ranges whose start frame has a timestamp
WithTimestamp == {i \in 1..Len(args.lines) : args.lines[i][1] \in KnownFrames}

\* the (start_time, duration) of the range at position i
SegmentOf(i) ==
    LET s == cutlist_segment(args.lines[i][1], args.lines[i][2], frame_to_pts,
                             sorted(KnownFrames))
    IN  <<s.start_time, s.duration>>

\* C23: a range whose start frame has no presentation time produces no
\* TimeSegment, and the failure is local: every sibling range whose start
\* frame has a timestamp still yields its TimeSegment, in input order.
C23_MissingStartIsLocal ==
    /\ op = "timecode_segments" =>
          /\ Len(result.segments) = Cardinality(WithTimestamp)
          /\ \A i \in WithTimestamp :
                LET k == Cardinality({j \in WithTimestamp : j <= i})
                IN  /\ result.segments[k].start_time = frame_to_pts[args.lines[i][1]]
                    /\ <<result.segments[k].start_time,
                         result.segments[k].duration>> = SegmentOf(i)
    /\ op = "output_lines" =>
          /\ Len(result.segments) = Len(args.lines)
          /\ \A i \in 1..Len(args.lines) :
                IF i \in WithTimestamp
                THEN /\ result.segments[i].line = 183
                     /\ <<result.segments[i].start_time,
                          result.segments[i].duration>> = SegmentOf(i)
                ELSE /\ result.segments[i].line = 188
                     /\ result.segments[i].start_time = None

\* a script whose first range starts on a frame without timestamp and whose
\* second range starts on a logged frame: one segment, that of the second
C23_Witness ==
    /\ op = "timecode_segments"
    /\ Len(args.lines) = 2
    /\ WithTimestamp = {2}
    /\ Len(result.segments) = 1
    /\ result.segments[1].start_time = frame_to_pts[args.lines[2][1]]

----------------------------------------------------------------------------
(* the batch loops: batch_process_vdscripts of the range adjuster and main
   of the cutlist generator, one file of the directory per step *)

BatchMaxVideos == 2
BatchMaxFrame == 1

\* what the log file of a video holds: frame number -> <<type, pts_time>>,
\* no record at all for a log without usable lines
BatchLogs ==
    UNION {[S -> PictureTypes \X (0..CutMaxPts)] : S \in SUBSET (0..BatchMaxFrame)}

\* the AddRange lines of the video's script: none, or one range of one frame
BatchLines ==
    {<<>>} \cup {<<(<<start, 1>>)>> : start \in 0..BatchMaxFrame}

\* a script file of the directory with its frame log, if that file exists
BatchVideos ==
    {[has_log |-> FALSE, log |-> <<>>, lines |-> <<>>]}
        \cup {[has_log |-> TRUE, log |-> l, lines |-> ls] :
                 l \in BatchLogs, ls \in BatchLines}

\* read_frame_log on the video's log
read_frame_log(log) == [k \in DOMAIN log |-> log[k][1]]

\* parse_showinfo_log on the video's log
parse_showinfo_log(log) == [k \in DOMAIN log |-> log[k][2]]

\* the exception process_vdscript lets escape from adjust_range, lines
\* 209-215: that of the first range whose adjustment raises
RECURSIVE process_vdscript_exc(_, _, _, _)
process_vdscript_exc(lines, ft, i_frame_offset, short_cut_mode) ==
    IF lines = <<>>
    THEN NoneType
    ELSE LET r == adjust_range(Head(lines)[1], Head(lines)[2], ft,
                               i_frame_offset, short_cut_mode)
         IN  IF r.exc # NoneType
             THEN r.exc
             ELSE process_vdscript_exc(Tail(lines), ft, i_frame_offset,
                                       short_cut_mode)

\* what the run did with one file
Outcome(video, outcome) ==
    [has_log |-> video.has_log, records |-> Cardinality(DOMAIN video.log),
     outcome |-> outcome]

\* the directory has been listed; nothing is processed yet
InitBatch ==
    /\ frame_types = <<>>
    /\ frame_to_pts = <<>>
    /\ op \in {"batch_process_vdscripts", "main"}
    /\ \E n \in 0..BatchMaxVideos, short_cut_mode \in BOOLEAN,
          i_frame_offset \in 1..MaxOffset :
         /\ pending = [i \in 1..n |-> i]
         /\ args = [tool |-> op, files |-> n, n |-> i_frame_offset,
                    short_cut_mode |-> short_cut_mode]
    /\ result = [outputs |-> <<>>, exc |-> NoneType]
    /\ merged = <<>>

\* one pass of the loop of batch_process_vdscripts, lines 233-244
batch_process_vdscripts_file ==
    /\ op = "batch_process_vdscripts"
    /\ pending # <<>>
    /\ \E video \in BatchVideos :
         IF ~video.has_log
         THEN /\ result' = [result EXCEPT !.outputs =
                               Append(@, Outcome(video, "Skipped"))]
              /\ pending' = Tail(pending)
              /\ UNCHANGED <<frame_types, op>>
         ELSE /\ frame_types' = read_frame_log(video.log)
              /\ IF process_vdscript_exc(video.lines, frame_types', args.n,
                                         args.short_cut_mode) # NoneType
                 THEN /\ op' = "aborted"
                      /\ result' = [result EXCEPT !.exc =
                            process_vdscript_exc(video.lines, frame_types',
                                                 args.n, args.short_cut_mode)]
                      /\ UNCHANGED pending
                 ELSE /\ result' = [result EXCEPT !.outputs =
                                       Append(@, Outcome(video, "Processed"))]
                      /\ pending' = Tail(pending)
                      /\ UNCHANGED op
    /\ UNCHANGED <<args, frame_to_pts, merged>>

\* the directory is exhausted
batch_process_vdscripts_return ==
    /\ op = "batch_process_vdscripts"
    /\ pending = <<>>
    /\ op' = "done"
    /\ UNCHANGED <<frame_types, args, result, frame_to_pts, merged, pending>>

\* one pass of the generator's loop over the adjusted scripts, lines 81-180
main_file ==
    /\ op = "main"
    /\ pending # <<>>
    /\ \E video \in BatchVideos :
         /\ frame_to_pts' = IF video.has_log
                            THEN parse_showinfo_log(video.log)
                            ELSE frame_to_pts
         /\ result' = [result EXCEPT !.outputs = Append(@, Outcome(video,
                IF ~video.has_log \/ frame_to_pts' = <<>> \/ video.lines = <<>>
                THEN "Skipped"
                ELSE IF timecode_segments(video.lines, frame_to_pts',
                                          sorted(DOMAIN frame_to_pts')) # <<>>
                     THEN "Processed"
                     ELSE "No timecode segments generated"))]
    /\ pending' = Tail(pending)
    /\ UNCHANGED <<frame_types, op, args, merged>>

\* the generator has gone through every script
main_return ==
    /\ op = "main"
    /\ pending = <<>>
    /\ op' = "done"
    /\ UNCHANGED <<frame_types, args, result, frame_to_pts, merged, pending>>

NextBatch ==
    \/ batch_process_vdscripts_file
    \/ batch_process_vdscripts_return
    \/ main_file
    \/ main_return

SpecBatch == InitBatch /\ [][NextBatch]_vars

\* C24: in a batch run a video whose frame log yields zero usable records is
\* skipped and every other video is still processed; a per-video failure
\* never aborts the run, in batch_process_vdscripts as in the cutlist
\* generator.
C24_BatchSkipsEmptyLog ==
    /\ op # "aborted"
    /\ result.exc = NoneType
    /\ \A i \in 1..Len(result.outputs) :
          (result.outputs[i].has_log /\ result.outputs[i].records = 0)
              => result.outputs[i].outcome = "Skipped"
    /\ op = "done" => Len(result.outputs) = args.files

\* the cutlist generator alone: it never aborts, skips every video whose log
\* has no record and goes through the whole directory
C24_GeneratorSkipsEmptyLog ==
    args.tool = "main" =>
        /\ op # "aborted"
        /\ result.exc = NoneType
        /\ \A i \in 1..Len(result.outputs) :
              (result.outputs[i].has_log /\ result.outputs[i].records = 0)
                  => result.outputs[i].outcome = "Skipped"
        /\ op = "done" => Len(result.outputs) = args.files

----------------------------------------------------------------------------
(* the searches against an index with no entries *)

BoundarySearches ==
    {"find_nth_previous_i_frame", "find_last_p_frame_before_next_i",
     "find_next_p_or_i_frame"}

\* C25: each of the three boundary searches, invoked against an index with no
\* entries, yields an error outcome rather than a frame number.
C25_EmptyIndexIsAnError ==
    (frame_types = <<>> /\ op \in BoundarySearches) => result.exc # NoneType

\* the two end searches do raise on an index with no entries, and so does
\* adjust_range, which calls one of them
C25_EndSearchesRaise ==
    (frame_types = <<>>
        /\ op \in {"find_last_p_frame_before_next_i", "find_next_p_or_i_frame",
                   "adjust_range"})
        => result.exc = "ValueError"

\* the start search returns frame 0 from an index with no entries
C25_StartSearchReturnsZero ==
    (frame_types = <<>> /\ op = "find_nth_previous_i_frame")
        => (result.exc = NoneType /\ result.val = 0 /\ result.line = 152)

----------------------------------------------------------------------------
(* read_frame_log and parse_showinfo_log over the lines of a log file *)

LogMaxLines == 3

\* a line the regular expression does not match
NoMatch == <<None, NoneType>>

\* the lines of a log as read_frame_log sees them: (n, type), or no match
TypeLines == ((0..BatchMaxFrame) \X PictureTypes) \cup {NoMatch}

\* the lines of a log as parse_showinfo_log sees them: (n, pts_time), or no
\* match
PtsLines == ((0..BatchMaxFrame) \X (0..CutMaxPts)) \cup {NoMatch}

\* `if match:`
match(line) == line[1] # None

LogFiles(lines) == UNION {[1..n -> lines] : n \in 0..LogMaxLines}

dict_set_first(d, key, value) ==
    \* plausible slip: d.setdefault(key, value), the first write wins
    [k \in DOMAIN d \cup {key} |-> IF k \in DOMAIN d THEN d[k] ELSE value]

\* d[key] = value
dict_set(d, key, value) ==
    [k \in DOMAIN d \cup {key} |-> IF k = key THEN value ELSE d[k]]

\* the log file has been opened and the dict is empty
InitLog ==
    /\ frame_types = <<>>
    /\ frame_to_pts = <<>>
    /\ \/ op = "read_frame_log" /\ pending \in LogFiles(TypeLines)
       \/ op = "parse_showinfo_log" /\ pending \in LogFiles(PtsLines)
    /\ args = [lines |-> pending]
    /\ result = [line |-> 0, exc |-> NoneType]
    /\ merged = <<>>

\* read_frame_log, lines 136-141: the next line of the file
read_frame_log_next_line ==
    /\ op = "read_frame_log"
    /\ pending # <<>>
    /\ frame_types' = IF match(Head(pending))
                      THEN dict_set(frame_types, Head(pending)[1],
                                    Head(pending)[2])
                      ELSE frame_types
    /\ pending' = Tail(pending)
    /\ result' = [line |-> Len(args.lines) - Len(pending'), exc |-> NoneType]
    /\ UNCHANGED <<op, args, frame_to_pts, merged>>

\* parse_showinfo_log, lines 27-32: the next line of the file
parse_showinfo_log_next_line ==
    /\ op = "parse_showinfo_log"
    /\ pending # <<>>
    /\ frame_to_pts' = IF match(Head(pending))
                       THEN dict_set(frame_to_pts, Head(pending)[1],
                                     Head(pending)[2])
                       ELSE frame_to_pts
    /\ pending' = Tail(pending)
    /\ result' = [line |-> Len(args.lines) - Len(pending'), exc |-> NoneType]
    /\ UNCHANGED <<op, args, frame_types, merged>>

\* end of the file: the dict is returned
read_log_return ==
    /\ op \in {"read_frame_log", "parse_showinfo_log"}
    /\ pending = <<>>
    /\ op' = "returned"
    /\ UNCHANGED <<frame_types, args, result, frame_to_pts, merged, pending>>

NextLog ==
    \/ read_frame_log_next_line
    \/ parse_showinfo_log_next_line
    \/ read_log_return

SpecLog == InitLog /\ [][NextLog]_vars

\* the positions of the lines read so far that carry a record
RecordsRead ==
    {i \in 1..result.line : match(args.lines[i])}

\* the index a sequence of records must give: each frame number that occurs
\* in it, with the value of the last record carrying that frame number
LastWriteWins(index) ==
    /\ DOMAIN index = {args.lines[i][1] : i \in RecordsRead}
    /\ \A k \in DOMAIN index :
          LET last == SetMax({i \in RecordsRead : args.lines[i][1] = k})
          IN  index[k] = args.lines[last][2]

\* C26: for every sequence of log records the index maps each frame number
\* to the value of the last record carrying that frame number, contains
\* exactly the frame numbers that occur in the sequence, and duplicates
\* never cause an error.
C26_LastWriteWins ==
    /\ result.exc = NoneType
    /\ LastWriteWins(frame_types @@ frame_to_pts)

\* a log whose first and last line carry the same frame number with
\* different picture types has been read: the last type is in the index
C26_Witness ==
    /\ op = "returned"
    /\ Len(args.lines) = 3
    /\ match(args.lines[1])
    /\ match(args.lines[3])
    /\ args.lines[1][1] = args.lines[3][1]
    /\ args.lines[1][2] = "I"
    /\ args.lines[3][2] = "P"
    /\ frame_types[args.lines[3][1]] = "P"

----------------------------------------------------------------------------
(* what merge_ranges keeps of its input *)

\* the frames of a range (start, length)
FramesOf(range) == range[1]..(range[1] + range[2] - 1)

\* the frames selected by a list of ranges
Selected(list) == UNION {FramesOf(list[i]) : i \in 1..Len(list)}

\* C27: for every input list sorted ascending by start (lengths >= 1) and
\* every min_gap >= 0, every frame contained in some input range is
\* contained in some output range of merge_ranges, and every output range
\* starts at the start of some input range and ends at the end of some input
\* range.
C27_MergeCoverage ==
    (op = "merge_ranges_done" /\ SortedByStart(args.ranges)) =>
        /\ Selected(args.ranges) \subseteq Selected(merged)
        /\ \A i \in 1..Len(merged) :
              /\ \E j \in 1..Len(args.ranges) :
                    args.ranges[j][1] = merged[i][1]
              /\ \E j \in 1..Len(args.ranges) :
                    args.ranges[j][1] + args.ranges[j][2]
                        = merged[i][1] + merged[i][2]

\* three ranges were merged into one, the first of them, which is the longest
\* and contains the other two: no frame is lost and none is added
C27_Witness ==
    /\ op = "merge_ranges_done"
    /\ Len(args.ranges) = 3
    /\ Len(merged) = 1
    /\ args.ranges[2][1] > args.ranges[1][1]
    /\ merged[1] = args.ranges[1]
    /\ args.ranges[1][2] > args.ranges[3][2]
    /\ Selected(args.ranges) = Selected(merged)

----------------------------------------------------------------------------
(* adjust_range applied again, and at the next offset *)

\* adjust_range applied to the range the recorded call returned
Readjusted ==
    adjust_range(result.val, result.len, frame_types, 1, args.short_cut_mode)

\* C28: adjustment is idempotent at offset 1: for every non-empty index,
\* every range and either mode, adjust_range with i_frame_offset = 1 applied
\* to the result of adjust_range(range, offset 1, same mode) returns the same
\* range.
C28_AdjustIdempotentAtOffsetOne ==
    (Applied("adjust_range") /\ args.n = 1) =>
        /\ Readjusted.exc = NoneType
        /\ Readjusted.val = result.val
        /\ Readjusted.len = result.len

\* a range that the first adjustment widened on both sides, FullGop mode
C28_Witness ==
    /\ Applied("adjust_range")
    /\ args.n = 1
    /\ ~args.short_cut_mode
    /\ NewStart < ArgStart
    /\ NewEnd > ArgEnd
    /\ Readjusted.val = result.val
    /\ Readjusted.len = result.len

\* a range that the first adjustment widened on both sides, ShortCut mode
C28_WitnessShortCut ==
    /\ Applied("adjust_range")
    /\ args.n = 1
    /\ args.short_cut_mode
    /\ NewStart < ArgStart
    /\ NewEnd > ArgEnd
    /\ Readjusted.val = result.val
    /\ Readjusted.len = result.len

\* the same range adjusted with the next offset
NextOffset ==
    adjust_range(args.frame_num, args.length, frame_types, args.n + 1,
                 args.short_cut_mode)

\* C29: increasing i_frame_offset only moves the start earlier: for every
\* non-empty index, range and mode, the adjusted start for offset n + 1 is
\* <= the adjusted start for offset n, and the adjusted end frame
\* (new_start + new_length - 1) is the same for every offset.
C29_OffsetOnlyMovesStartEarlier ==
    Applied("adjust_range") =>
        /\ NextOffset.exc = NoneType
        /\ NextOffset.val <= NewStart
        /\ NextOffset.val + NextOffset.len - 1 = NewEnd
        /\ NewEnd = result.at

\* the next offset moves the start to an earlier Intra frame and keeps the
\* end
C29_Witness ==
    /\ Applied("adjust_range")
    /\ IsI(NewStart)
    /\ NextOffset.val < NewStart
    /\ IsI(NextOffset.val)
    /\ NextOffset.val + NextOffset.len - 1 = NewEnd
    /\ NewEnd > ArgEnd

----------------------------------------------------------------------------
(* vdscript_range_adjuster_v1.4.0.py: the next-P-or-I search that returns
   None when it finds nothing, and the adjust_range that replaces None by
   the original end *)

RECURSIVE next_p_or_i_scan_v1_4_0_max(_, _, _)
next_p_or_i_scan_v1_4_0_max(next_frame, ft, max) ==
    \* plausible slip: the fall-through returns max_frame instead of None
    IF next_frame > max
    THEN Ret(max, 57, next_frame)
    ELSE IF Get(ft, next_frame) \in {"I", "P"}
         THEN Ret(next_frame, 55, next_frame)
         ELSE next_p_or_i_scan_v1_4_0_max(next_frame + 1, ft, max)

\* v1.4.0 lines 53-57
RECURSIVE next_p_or_i_scan_v1_4_0(_, _, _)
next_p_or_i_scan_v1_4_0(next_frame, ft, max) ==
    IF next_frame > max
    THEN Ret(None, 57, next_frame)
    ELSE IF Get(ft, next_frame) \in {"I", "P"}
         THEN Ret(next_frame, 55, next_frame)
         ELSE next_p_or_i_scan_v1_4_0(next_frame + 1, ft, max)

\* v1.4.0 lines 50-57: the frame itself is never looked at
find_next_p_or_i_frame_v1_4_0(frame_num, ft) ==
    IF DOMAIN ft = {}
    THEN Raise("ValueError", 51)
    ELSE next_p_or_i_scan_v1_4_0(frame_num + 1, ft, max_frame(ft))

\* v1.4.0 lines 35-48
adjust_range_v1_4_0(start, length, ft, i_frame_offset, short_cut_mode) ==
    LET new_start == find_nth_previous_i_frame(start, ft, i_frame_offset).val
        end       == start + length - 1
        found     == IF short_cut_mode
                     THEN find_next_p_or_i_frame_v1_4_0(end, ft)
                     ELSE find_last_p_frame_before_next_i(end, ft)
        new_end   == IF found.val = None THEN end ELSE found.val
    IN  IF found.exc # NoneType
        THEN Raise(found.exc, IF short_cut_mode THEN 40 ELSE 42)
        ELSE [val |-> new_start, len |-> new_end - new_start + 1,
              line |-> 48, at |-> new_end, exc |-> NoneType]

\* read_frame_log has returned a non-empty index
InitLegacy ==
    /\ frame_types \in ScriptIndexes
    /\ op = "ready"
    /\ args = NoArgs
    /\ result = Ret(None, 142, None)
    /\ frame_to_pts = <<>>
    /\ merged = <<>>
    /\ pending = <<>>

\* process_vdscript of v1.4.0 adjusts one range
Call_adjust_range_v1_4_0 ==
    /\ op = "ready"
    /\ \E start \in ArgFrames, length \in 1..MaxLen,
          i_frame_offset \in 1..MaxOffset, short_cut_mode \in BOOLEAN :
         /\ op' = "adjust_range_v1_4_0"
         /\ args' = [frame_num |-> start, length |-> length,
                     n |-> i_frame_offset, short_cut_mode |-> short_cut_mode]
         /\ result' = adjust_range_v1_4_0(start, length, frame_types,
                                          i_frame_offset, short_cut_mode)
    /\ UNCHANGED <<frame_types, others>>

NextLegacy ==
    \/ Call_adjust_range_v1_4_0
    \/ Call_adjust_range
    \/ Return

SpecLegacy == InitLegacy /\ [][NextLegacy]_vars

\* no Predicted or Intra frame strictly after the end frame of the range, up
\* to the maximum of the index
NothingAfterEnd ==
    \A k \in (ArgEnd + 1)..max_frame(frame_types) :
        Get(frame_types, k) \notin {"I", "P"}

\* the recorded range adjusted by each version, ShortCut mode
ByCurrent ==
    adjust_range(args.frame_num, args.length, frame_types, args.n, TRUE)
ByLegacy ==
    adjust_range_v1_4_0(args.frame_num, args.length, frame_types, args.n, TRUE)

\* C30: for every non-empty index and every range whose end frame has no
\* Predicted or Intra frame strictly after it up to the index maximum, the
\* ShortCut-mode adjust_range of v1.4.0 (search returns None, replaced by
\* the original end) and of the current version (search returns the original
\* frame) return the same adjusted range, whose end is the original end
\* frame.
C30_LegacyPoliciesAgree ==
    (op \in {"adjust_range", "adjust_range_v1_4_0"}
        /\ args.short_cut_mode /\ NothingAfterEnd) =>
        /\ result.exc = NoneType
        /\ result.val = ByCurrent.val /\ result.len = ByCurrent.len
        /\ result.val = ByLegacy.val /\ result.len = ByLegacy.len
        /\ NewEnd = ArgEnd

\* v1.4.0 adjusted a range whose end is a Bidirectional frame below the
\* index maximum with nothing but Bidirectional frames after it: its search
\* returned None and the end stayed where it was
C30_Witness ==
    /\ op = "adjust_range_v1_4_0"
    /\ args.short_cut_mode
    /\ NothingAfterEnd
    /\ ArgEnd < max_frame(frame_types)
    /\ IsB(ArgEnd)
    /\ find_next_p_or_i_frame_v1_4_0(ArgEnd, frame_types).val = None
    /\ NewEnd = ArgEnd
    /\ NewStart < ArgStart

====
